---- MODULE Spec2Model ----
(***************************************************************************)
(* A model of src/js/app.js: the GitHub client (GitHubAPI), the in-memory  *)
(* catalog (SBOMStorage) and the handlers of SBOMApplication that change   *)
(* them.  Handlers that await are split at their awaits; everything        *)
(* between two awaits is one atomic step, as in the browser's event loop.  *)
(***************************************************************************)
EXTENDS Integers, Sequences, FiniteSets, TLC

VARIABLES
    repositories,    \* SBOMStorage.repositories: id -> record (a Map)
    selectedRepos,   \* SBOMStorage.selectedRepos: ids in insertion order (a Set)
    sboms,           \* SBOMStorage.sboms: tool -> id -> the formats stored
    rateLimit,       \* GitHubAPI.rateLimit: [remaining, reset]
    adds,            \* the addRepository calls suspended at an await
    scans,           \* the runTool calls suspended at an await
    runBtnDisabled,  \* button -> its disabled flag, for the run button of
                     \* each tool and the report button
    notification,    \* the toast on the page: the message showNotification
                     \* put there last, "none" once it has been removed
    scansStarted,    \* how many runTool calls have reached their first await
    env,             \* the session explored: what the user types, what the
                     \* server may answer, how many calls may overlap
    calc,            \* the call of a synchronous method that a session of
                     \* single calls follows step by step: its arguments,
                     \* its locals and its result
    challenges,      \* SBOMStorage.challenges, newest entry first, in a
                     \* session that follows the log (no handler reads it)
    reports          \* how many generateReport calls are suspended

vars == <<repositories, selectedRepos, sboms, rateLimit, adds, scans,
          runBtnDisabled, notification, scansStarted, env, calc, challenges, reports>>

(***************************************************************************)
(* Strings.  A string is the sequence of its character codes, so that      *)
(* btoa, trim, includes, match and replace are computed, not assumed.      *)
(***************************************************************************)
Code ==
    " " :> 32 @@ "+" :> 43 @@ "-" :> 45 @@ "." :> 46 @@ "/" :> 47 @@ ":" :> 58 @@
    "=" :> 61 @@ ">" :> 62 @@ "?" :> 63 @@ "@" :> 64 @@ "~" :> 126 @@ "0" :> 48 @@
    "1" :> 49 @@ "2" :> 50 @@ "3" :> 51 @@ "4" :> 52 @@ "5" :> 53 @@ "6" :> 54 @@
    "7" :> 55 @@ "8" :> 56 @@ "9" :> 57 @@ "a" :> 97 @@ "b" :> 98 @@ "c" :> 99 @@
    "d" :> 100 @@ "e" :> 101 @@ "f" :> 102 @@ "g" :> 103 @@ "h" :> 104 @@ "i" :> 105 @@
    "j" :> 106 @@ "k" :> 107 @@ "l" :> 108 @@ "m" :> 109 @@ "n" :> 110 @@ "o" :> 111 @@
    "p" :> 112 @@ "q" :> 113 @@ "r" :> 114 @@ "s" :> 115 @@ "t" :> 116 @@ "u" :> 117 @@
    "v" :> 118 @@ "w" :> 119 @@ "x" :> 120 @@ "y" :> 121 @@ "z" :> 122

Str(cs) == [i \in 1..Len(cs) |-> Code[cs[i]]]

Slash == 47

GithubHost == Str(<<"g", "i", "t", "h", "u", "b", ".", "c", "o", "m", "/">>)

DotGit == Str(<<".", "g", "i", "t">>)

\* the code points String.prototype.trim removes, among those the model uses
IsSpace(c) == c \in {9, 10, 11, 12, 13, 32, 160}

RECURSIVE TrimStart(_)
TrimStart(s) ==
    IF s # <<>> /\ IsSpace(Head(s)) THEN TrimStart(Tail(s)) ELSE s

RECURSIVE TrimEnd(_)
TrimEnd(s) ==
    IF s # <<>> /\ IsSpace(s[Len(s)]) THEN TrimEnd(SubSeq(s, 1, Len(s) - 1)) ELSE s

Trim(s) == TrimEnd(TrimStart(s))

StartsWithAt(s, p, t) ==
    /\ p + Len(t) - 1 <= Len(s)
    /\ \A k \in 1..Len(t) : s[p + k - 1] = t[k]

Includes(s, t) == \E p \in 1..(Len(s) + 1) : StartsWithAt(s, p, t)

\* s.replace(/\.git$/, "")
StripDotGit(s) ==
    IF Len(s) >= Len(DotGit) /\ StartsWithAt(s, Len(s) - Len(DotGit) + 1, DotGit)
    THEN SubSeq(s, 1, Len(s) - Len(DotGit))
    ELSE s

\* the longest run of characters other than "/" that starts at position p
RECURSIVE RunEnd(_, _)
RunEnd(s, p) == IF p <= Len(s) /\ s[p] # Slash THEN RunEnd(s, p + 1) ELSE p

\* /github\.com\/([^\/]+\/[^\/]+)/ tried at position p: the capture, or <<>>
MatchAt(s, p) ==
    IF ~StartsWithAt(s, p, GithubHost) THEN <<>>
    ELSE LET o  == p + Len(GithubHost)
             oe == RunEnd(s, o)
             re == RunEnd(s, oe + 1)
         IN  IF oe > o /\ oe <= Len(s) /\ s[oe] = Slash /\ re > oe + 1
             THEN SubSeq(s, o, re - 1)
             ELSE <<>>

\* url.match(/github\.com\/([^\/]+\/[^\/]+)/): match[1] of the leftmost
\* match, or <<>> for null (a capture is never empty)
MatchGithub(s) ==
    LET ps == {p \in 1..Len(s) : MatchAt(s, p) # <<>>}
    IN  IF ps = {} THEN <<>>
        ELSE MatchAt(s, CHOOSE p \in ps : \A q \in ps : p <= q)

(***************************************************************************)
(* btoa and generateRepoId                                                 *)
(***************************************************************************)
\* the character of the base64 alphabet for a six-bit value
B64Char(v) ==
    IF v < 26 THEN 65 + v
    ELSE IF v < 52 THEN 97 + (v - 26)
    ELSE IF v < 62 THEN 48 + (v - 52)
    ELSE IF v = 62 THEN 43 ELSE 47

B64Pad == 61

RECURSIVE Btoa(_)
Btoa(s) ==
    IF Len(s) = 0 THEN <<>>
    ELSE IF Len(s) = 1 THEN
        <<B64Char(s[1] \div 4), B64Char((s[1] % 4) * 16), B64Pad, B64Pad>>
    ELSE IF Len(s) = 2 THEN
        <<B64Char(s[1] \div 4), B64Char((s[1] % 4) * 16 + s[2] \div 16),
          B64Char((s[2] % 16) * 4), B64Pad>>
    ELSE
        <<B64Char(s[1] \div 4), B64Char((s[1] % 4) * 16 + s[2] \div 16),
          B64Char((s[2] % 16) * 4 + s[3] \div 64), B64Char(s[3] % 64)>>
        \o Btoa(SubSeq(s, 4, Len(s)))

\* btoa throws InvalidCharacterError on a code point above 255
BtoaThrows(s) == \E i \in 1..Len(s) : s[i] > 255

IsAlnum(c) == (c >= 48 /\ c <= 57) \/ (c >= 65 /\ c <= 90) \/ (c >= 97 /\ c <= 122)

generateRepoId(url) == SelectSeq(Btoa(url), IsAlnum)

\* extractRepoFullName without its replace(/\.git$/, "")
extractRepoFullNameNoStrip(url) ==
    IF Includes(url, GithubHost) THEN MatchGithub(url) ELSE Trim(url)

extractRepoFullName(url) ==
    IF Includes(url, GithubHost)
    THEN StripDotGit(MatchGithub(url))      \* <<>> stands for null
    ELSE StripDotGit(Trim(url))

(***************************************************************************)
(* Program constants                                                       *)
(***************************************************************************)
\* in a session that follows the challenge log: the length of the log
\* from which the user stops acting
MaxLog == 4

\* the buttons whose disabled flag updateUI sets
Buttons == {"syft", "owasp", "generateReport"}

Tools == {"syft", "owasp"}

Formats == {"cyclonedx", "spdx"}

\* toggleRepoSelection: selectedRepos.size < 5
SelectionLimit == 5

\* fetchDependencyFiles: the candidate manifest files, in probe order
manifestFiles ==
    <<"package.json", "requirements.txt", "pom.xml", "build.gradle", "Gemfile",
      "Cargo.toml", "composer.json", "go.mod", "pyproject.toml", "yarn.lock",
      "package-lock.json", "Pipfile", "Podfile", "build.sbt", "project.clj">>

(***************************************************************************)
(* Math.random: floor(Math.random() * n) is any of 0..n-1; a session       *)
(* explores the smallest value, the largest, or both                       *)
(***************************************************************************)
Draws(n) ==
    {k \in {0, n - 1} : (k = 0 /\ "min" \in env.draws) \/ (k = n - 1 /\ "max" \in env.draws)}

(***************************************************************************)
(* SBOMStorage                                                             *)
(***************************************************************************)
Storage ==
    [repositories |-> repositories, selectedRepos |-> selectedRepos, sboms |-> sboms]

SetStorage(st) ==
    /\ repositories' = st.repositories
    /\ selectedRepos' = st.selectedRepos
    /\ sboms' = st.sboms

EmptyMap == [x \in {} |-> {}]

EmptySboms == [t \in Tools |-> EmptyMap]

Has(m, k) == k \in DOMAIN m

MapSet(m, k, v) == [x \in DOMAIN m \cup {k} |-> IF x = k THEN v ELSE m[x]]

MapDelete(m, k) == [x \in DOMAIN m \ {k} |-> m[x]]

\* Set.prototype.has / add / delete on an insertion-ordered set
SetHas(s, x) == \E i \in 1..Len(s) : s[i] = x

SetAdd(s, x) == IF SetHas(s, x) THEN s ELSE Append(s, x)

SetDelete(s, x) == SelectSeq(s, LAMBDA y : y # x)

Range(s) == {s[i] : i \in 1..Len(s)}

\* estimateDependencies with every threshold taken inclusively
estimateDependenciesInclusive(stars) ==
    IF stars >= 50000 THEN {k + 200 : k \in Draws(100)}
    ELSE IF stars >= 10000 THEN {k + 100 : k \in Draws(50)}
    ELSE IF stars >= 1000 THEN {k + 50 : k \in Draws(30)}
    ELSE IF stars >= 100 THEN {k + 20 : k \in Draws(20)}
    ELSE {k + 5 : k \in Draws(10)}

\* estimateDependencies(stars): the values Math.random allows
estimateDependencies(stars) ==
    IF stars > 50000 THEN {k + 200 : k \in Draws(100)}
    ELSE IF stars > 10000 THEN {k + 100 : k \in Draws(50)}
    ELSE IF stars > 1000 THEN {k + 50 : k \in Draws(30)}
    ELSE IF stars > 100 THEN {k + 20 : k \in Draws(20)}
    ELSE {k + 5 : k \in Draws(10)}

\* createMockRepoData(url): the records Math.random allows.  fullName is
\* match[1] without the ".git" strip, or the whole url.
createMockRepoData(url) ==
    LET m == MatchGithub(url)
        fullName == IF m # <<>> THEN m ELSE url
    IN  {[id |-> generateRepoId(url),
          fullName |-> fullName,
          dependencies |-> k + 20,
          scanned |-> FALSE] : k \in Draws(150)}

IsMock(r) == "manifestFiles" \notin DOMAIN r

\* `${name}@${version}`
At == "@"

DepString(name, version) == name \o <<At>> \o version

\* Object.keys(o).map(name => `${name}@${o[name]}`) for o given as its
\* entries in key order
DepStrings(entries) ==
    [i \in 1..Len(entries) |-> DepString(entries[i][1], entries[i][2])]

\* fetchDependencyFiles: the files whose probe answered 200, in list order.
\* resp maps a file name to [status, content]; a probe that throws has
\* status 0.
fetchDependencyFiles(resp) ==
    LET found == SelectSeq(manifestFiles, LAMBDA f : resp[f].status = 200)
    IN  [i \in 1..Len(found) |-> [name |-> found[i], content |-> resp[found[i]].content]]

\* a file's content: kind "none" when the response has no content,
\* "invalid" when it does not decode to a JSON object, else "json" with the
\* entries of dependencies and devDependencies in key order (<<>> when
\* the key is absent or empty)
NoContent == [kind |-> "none", dependencies |-> <<>>, devDependencies |-> <<>>]

InvalidJson == [kind |-> "invalid", dependencies |-> <<>>, devDependencies |-> <<>>]

PackageJson(deps, devDeps) ==
    [kind |-> "json", dependencies |-> deps, devDependencies |-> devDeps]

\* fetchRepositoryData, lines 291-321: <<dependencies, parsedDependencies>>
ParseManifests(files) ==
    LET pj == SelectSeq(files, LAMBDA f :
                  f.name = "package.json" /\ f.content.kind = "json")
    IN  IF pj = <<>> THEN <<0, <<>>>>
        ELSE LET c == pj[1].content
             IN  <<Len(c.dependencies) + Len(c.devDependencies),
                   DepStrings(c.dependencies) \o DepStrings(c.devDependencies)>>

\* fetchRepositoryData, lines 323-355: the records that may be returned
\* when every request succeeded
RealRepoData(url, repoFullName, stars, language, files) ==
    LET parsed == ParseManifests(files)
        counts == IF parsed[1] = 0 THEN estimateDependencies(stars) ELSE {parsed[1]}
    IN  {[id |-> generateRepoId(url),
          fullName |-> repoFullName,
          language |-> language,
          dependencies |-> n,
          manifestFiles |-> [i \in 1..Len(files) |-> files[i].name],
          parsedDependencies |-> parsed[2],
          scanned |-> FALSE] : n \in counts}

\* removeRepository that forgets the owasp store
removeRepositorySyftOnly(st, repoId) ==
    [repositories |-> MapDelete(st.repositories, repoId),
     selectedRepos |-> SetDelete(st.selectedRepos, repoId),
     sboms |-> [st.sboms EXCEPT !["syft"] = MapDelete(@, repoId)]]

\* removeRepository(repoId)
removeRepository(st, repoId) ==
    [repositories |-> MapDelete(st.repositories, repoId),
     selectedRepos |-> SetDelete(st.selectedRepos, repoId),
     sboms |-> [t \in Tools |-> MapDelete(st.sboms[t], repoId)]]

\* saveSBOM(tool, repoId, format, data); a document is kept as its format
saveSBOM(st, tool, repoId, format) ==
    LET old == IF Has(st.sboms[tool], repoId) THEN st.sboms[tool][repoId] ELSE {}
    IN  [repositories |->
             IF Has(st.repositories, repoId)
             THEN [st.repositories EXCEPT ![repoId].scanned = TRUE]
             ELSE st.repositories,
         selectedRepos |-> st.selectedRepos,
         sboms |-> [st.sboms EXCEPT ![tool] = MapSet(@, repoId, old \cup {format})]]

(***************************************************************************)
(* GitHubAPI                                                               *)
(***************************************************************************)
IsDigit(c) == c >= 48 /\ c <= 57

RECURSIVE DigitsValue(_, _)
DigitsValue(s, acc) ==
    IF s # <<>> /\ IsDigit(Head(s))
    THEN DigitsValue(Tail(s), acc * 10 + (Head(s) - 48))
    ELSE acc

\* parseInt(s) for a header value.  The headers of the model are decimal
\* numerals, as GitHub sends them; parseInt of anything else is NaN.
parseInt(s) == DigitsValue(TrimStart(s), 0)

\* updateRateLimit that keeps the reset header in seconds
updateRateLimitSeconds(rl, headers) ==
    [remaining |-> IF headers.remaining # <<>>
                   THEN parseInt(headers.remaining) ELSE rl.remaining,
     reset |-> IF headers.reset # <<>>
               THEN parseInt(headers.reset) ELSE rl.reset]

\* updateRateLimit(response); a header that is absent (null) or empty is <<>>
updateRateLimit(rl, headers) ==
    [remaining |-> IF headers.remaining # <<>>
                   THEN parseInt(headers.remaining) ELSE rl.remaining,
     reset |-> IF headers.reset # <<>>
               THEN parseInt(headers.reset) * 1000 ELSE rl.reset]

\* the headers a response may carry
Headers == [remaining : env.remaining, reset : env.reset]

\* what the probes of the candidate files may answer: 200 for the files in
\* found (package.json with the given content), a failed request (0) for
\* the files in failed, 404 for the rest
Response(found, content, failed) ==
    [f \in Range(manifestFiles) |->
        IF f \in found
        THEN [status |-> 200,
              content |-> IF f = "package.json" THEN content ELSE InvalidJson]
        ELSE IF f \in failed THEN [status |-> 0, content |-> NoContent]
        ELSE [status |-> 404, content |-> NoContent]]

Responses ==
    {Response(found, content, failed) :
        found \in env.found, content \in env.contents, failed \in env.failed}

(***************************************************************************)
(* SBOMApplication                                                         *)
(***************************************************************************)
\* whether the user of the session clicks now: always, or, in a session
\* that ends with its scan, only until a scan has been started
UserActs ==
    /\ env.keepsActing \/ scansStarted = 0
    /\ env.logs => Len(challenges) < MaxLog

\* showNotification's timer: the toast is removed after three seconds
NotificationExpire ==
    /\ notification # "none"
    /\ notification' = "none"
    /\ UNCHANGED <<repositories, selectedRepos, sboms, rateLimit, adds, scans,
                   runBtnDisabled, scansStarted, env, calc, challenges, reports>>

\* updateUI: the run buttons and the report button are disabled exactly
\* when nothing is selected
updateUI(sel) == [b \in Buttons |-> sel = <<>>]

\* the log as the session follows it: whole, or not at all
Follow(log) == IF env.logs THEN log ELSE <<>>

\* an entry of the log; the time of an entry is the number of entries
\* logged before it
Entry(title, log) == [title |-> title, timestamp |-> Len(log)]

\* addChallenge that pushes the entry at the tail
addChallengePush(log, title) == Follow(Append(log, Entry(title, log)))

\* addChallenge(title, ...): challenges.unshift(entry)
addChallenge(log, title) == Follow(<<Entry(title, log)>> \o log)

\* addRepositoryStart without the repositories.has(repoId) test
addRepositoryStartNoHas(repos, url) ==
    IF extractRepoFullName(url) = <<>> THEN "mock" ELSE "fetch"

\* SBOMStorage.addRepository up to its first await: what the call does for
\* a trimmed url, given the catalog
addRepositoryStart(repos, url) ==
    IF Has(repos, generateRepoId(url)) THEN "null"
    ELSE IF extractRepoFullName(url) = <<>> THEN "mock"
    ELSE "fetch"

\* repositories.set(repoId, repoData) and the rest of the success branch of
\* SBOMApplication.addRepository (renderRepositories, updateUI)
StoreRepo(url, repoData) ==
    /\ repositories' = MapSet(repositories, generateRepoId(url), repoData)
    /\ runBtnDisabled' = updateUI(selectedRepos)
    /\ notification' = "Added repository"
    /\ challenges' = addChallenge(challenges, "Repository Data Fetched from GitHub API")
    /\ UNCHANGED <<selectedRepos, sboms>>

\* SBOMApplication.addRepository, from the click to the first await
AddRepository(raw) ==
    LET url == Trim(raw) IN
    /\ UserActs
    /\ UNCHANGED <<scans, scansStarted, env, calc, reports>>
    /\ IF url = <<>> THEN
           /\ notification' = "Please enter a repository URL"
           /\ UNCHANGED <<repositories, selectedRepos, sboms, rateLimit, adds,
                          runBtnDisabled, challenges>>
       ELSE IF BtoaThrows(url) THEN
           /\ notification' = "Error"
           /\ challenges' = addChallenge(challenges, "GitHub API Error")
           /\ UNCHANGED <<repositories, selectedRepos, sboms, rateLimit, adds,
                          runBtnDisabled>>
       ELSE CASE addRepositoryStart(repositories, url) = "null" ->
                   /\ notification' = "Repository already added"
                   /\ UNCHANGED <<repositories, selectedRepos, sboms, rateLimit,
                                  adds, runBtnDisabled, challenges>>
              [] addRepositoryStart(repositories, url) = "mock" ->
                   /\ \E m \in createMockRepoData(url) : StoreRepo(url, m)
                   /\ UNCHANGED <<rateLimit, adds>>
              [] addRepositoryStart(repositories, url) = "fetch" ->
                   /\ IF env.serial THEN adds = <<>> ELSE Len(adds) < env.calls
                   /\ adds' = Append(adds, [url |-> url, pc |-> "probe", stars |-> 0,
                                                         language |-> "Unknown",
                                                         langsFailed |-> FALSE])
                   /\ notification' = IF rateLimit.remaining < 5
                                      THEN "Rate limit low" ELSE notification
                   /\ UNCHANGED <<repositories, selectedRepos, sboms, rateLimit,
                                  runBtnDisabled, challenges>>

RemoveAt(s, i) == SubSeq(s, 1, i - 1) \o SubSeq(s, i + 1, Len(s))

\* fetchRepositoryData without its catch: the error reaches the click
\* handler, which reports it, and nothing is stored
AddFallbackRethrows(i) ==
    /\ notification' = "Error"
    /\ challenges' = addChallenge(challenges, "GitHub API Error")
    /\ adds' = RemoveAt(adds, i)
    /\ UNCHANGED <<repositories, selectedRepos, sboms, runBtnDisabled>>

\* the catch of fetchRepositoryData: the mock record is stored and returned
AddFallback(i) ==
    /\ \E m \in createMockRepoData(adds[i].url) : StoreRepo(adds[i].url, m)
    /\ adds' = RemoveAt(adds, i)

\* what a request may end in: no response at all (fetch rejects), or a
\* response that is ok or not and carries headers
NoHeaders == [remaining |-> <<>>, reset |-> <<>>]

Outcomes ==
    {[kind |-> "throw", headers |-> NoHeaders]}
        \cup [kind : {"ok", "notok"}, headers : Headers]

\* checkRepositoryAccessibility answers with outcome o: accessible for an
\* ok response, inaccessible for any other response and when fetch rejects.
\* The response is never passed to updateRateLimit.
AddProbeWith(i, o) ==
    /\ i \in 1..Len(adds) /\ adds[i].pc = "probe"
    /\ UNCHANGED <<scans, scansStarted, env, calc, rateLimit, reports>>
    /\ IF o.kind = "ok"
       THEN /\ adds' = [adds EXCEPT ![i].pc = "info"]
            /\ UNCHANGED <<repositories, selectedRepos, sboms, runBtnDisabled,
                           notification, challenges>>
       ELSE AddFallback(i)

AddProbeDone(i) == \E o \in Outcomes : AddProbeWith(i, o)

\* fetchRepositoryInfo whose failure is ignored: the add goes on to the
\* language fetch
AddInfoWithGoesOn(i, o) ==
    /\ i \in 1..Len(adds) /\ adds[i].pc = "info"
    /\ UNCHANGED <<scans, scansStarted, env, calc, reports>>
    /\ rateLimit' = IF o.kind = "throw" THEN rateLimit
                    ELSE updateRateLimit(rateLimit, o.headers)
    /\ \E s \in env.stars :
          /\ adds' = [adds EXCEPT ![i].pc = "langs", ![i].stars = s]
          /\ UNCHANGED <<repositories, selectedRepos, sboms, runBtnDisabled,
                         notification, challenges>>

\* fetchRepositoryInfo answers with outcome o: updateRateLimit runs on every
\* response; anything but an ok response throws into the catch
AddInfoWith(i, o) ==
    /\ i \in 1..Len(adds) /\ adds[i].pc = "info"
    /\ UNCHANGED <<scans, scansStarted, env, calc, reports>>
    /\ rateLimit' = IF o.kind = "throw" THEN rateLimit
                    ELSE updateRateLimit(rateLimit, o.headers)
    /\ IF o.kind # "ok" THEN AddFallback(i)
       ELSE \E s \in env.stars :
               /\ adds' = [adds EXCEPT ![i].pc = "langs", ![i].stars = s]
               /\ UNCHANGED <<repositories, selectedRepos, sboms, runBtnDisabled,
                              notification, challenges>>

AddInfoDone(i) == \E o \in Outcomes : AddInfoWith(i, o)

\* Object.keys(languages)[0], or "Unknown" for the {} that fetchLanguages
\* returns on every failure
primaryLanguage(o) == IF o.kind = "ok" THEN env.languages ELSE {"Unknown"}

\* fetchLanguages answers with outcome o; it returns {} on every failure,
\* so the add goes on
AddLangsWith(i, o) ==
    /\ i \in 1..Len(adds) /\ adds[i].pc = "langs"
    /\ UNCHANGED <<scans, scansStarted, env, calc, challenges, reports, repositories, selectedRepos, sboms,
                   runBtnDisabled, notification>>
    /\ rateLimit' = IF o.kind = "throw" THEN rateLimit
                    ELSE updateRateLimit(rateLimit, o.headers)
    /\ \E l \in primaryLanguage(o) :
          adds' = [adds EXCEPT ![i].pc = "manifests", ![i].language = l,
                               ![i].langsFailed = (o.kind # "ok")]

AddLangsDone(i) == \E o \in Outcomes : AddLangsWith(i, o)

\* fetchDependencyFiles has probed every candidate, with the answers resp;
\* the record is assembled, stored and returned.  The probes touch only
\* the local foundFiles and never call updateRateLimit.
AddManifestsWith(i, resp) ==
    /\ i \in 1..Len(adds) /\ adds[i].pc = "manifests"
    /\ UNCHANGED <<scans, scansStarted, env, calc, rateLimit, reports>>
    /\ \E r \in RealRepoData(adds[i].url, extractRepoFullName(adds[i].url),
                             adds[i].stars, adds[i].language,
                             fetchDependencyFiles(resp)) :
           StoreRepo(adds[i].url, r)
    /\ adds' = RemoveAt(adds, i)

AddManifestsDone(i) == \E resp \in Responses : AddManifestsWith(i, resp)

\* SBOMApplication.removeRepository, for a rendered Remove button
RemoveRepository(repoId) ==
    /\ UserActs
    /\ Has(repositories, repoId)
    /\ SetStorage(removeRepository(Storage, repoId))
    /\ runBtnDisabled' = updateUI(selectedRepos')
    /\ notification' = "Removed repository"
    /\ UNCHANGED <<rateLimit, adds, scans, scansStarted, env, calc, challenges, reports>>

\* SBOMApplication.clearAllRepositories; the user answers the confirm dialog
ClearAllRepositories ==
    /\ UserActs
    /\ UNCHANGED <<rateLimit, adds, scans, scansStarted, env, calc, challenges, reports>>
    /\ IF DOMAIN repositories = {} THEN
           /\ notification' = "No repositories to remove"
           /\ UNCHANGED <<repositories, selectedRepos, sboms, runBtnDisabled>>
       ELSE \E confirmed \in BOOLEAN :
           IF confirmed THEN
               /\ repositories' = EmptyMap
               /\ selectedRepos' = <<>>
               /\ sboms' = EmptySboms
               /\ runBtnDisabled' = updateUI(<<>>)
               /\ notification' = "All repositories removed"
           ELSE
               UNCHANGED <<repositories, selectedRepos, sboms, runBtnDisabled,
                           notification>>

\* toggleRepoSelection(repoId) on the selection: the new selection, and
\* whether the limit notification was shown instead of a change
\* toggleRepoSelection with the size test off by one
toggleRepoSelectionInclusive(sel, repoId) ==
    IF SetHas(sel, repoId) THEN [limit |-> FALSE, sel |-> SetDelete(sel, repoId)]
    ELSE IF Len(sel) <= SelectionLimit THEN [limit |-> FALSE, sel |-> SetAdd(sel, repoId)]
    ELSE [limit |-> TRUE, sel |-> sel]

toggleRepoSelection(sel, repoId) ==
    IF SetHas(sel, repoId) THEN [limit |-> FALSE, sel |-> SetDelete(sel, repoId)]
    ELSE IF Len(sel) < SelectionLimit THEN [limit |-> FALSE, sel |-> SetAdd(sel, repoId)]
    ELSE [limit |-> TRUE, sel |-> sel]

\* SBOMApplication.toggleRepoSelection, for a rendered Select button
ToggleRepoSelection(repoId) ==
    /\ UserActs
    /\ Has(repositories, repoId)
    /\ UNCHANGED <<repositories, sboms, rateLimit, adds, scans, scansStarted, env, calc,
                   challenges, reports>>
    /\ LET t == toggleRepoSelection(selectedRepos, repoId) IN
       IF t.limit THEN
           /\ notification' = "Maximum 5 repositories can be selected"
           /\ UNCHANGED <<selectedRepos, runBtnDisabled>>
       ELSE
           /\ selectedRepos' = t.sel
           /\ runBtnDisabled' = updateUI(t.sel)
           /\ UNCHANGED notification

\* runTool's for loop: the first index from i on whose repository is still
\* in the catalog (the others are skipped by `continue`), or Len(arr) + 1
RECURSIVE NextPresent(_, _, _)
NextPresent(repos, arr, i) ==
    IF i <= Len(arr) /\ ~Has(repos, arr[i]) THEN NextPresent(repos, arr, i + 1) ELSE i

\* updateComparison: an entry is logged when both totals are positive,
\* that is when a selected id is in the catalog (generateDependencies
\* never returns an empty array)
updateComparison(log) ==
    IF \E j \in 1..Len(selectedRepos) : Has(repositories, selectedRepos[j])
    THEN addChallenge(log, "Tool Comparison Completed")
    ELSE log

\* the end of runTool(tool): the button is enabled again, the scan is
\* logged, then updateComparison and updateUI run
RunToolComplete(tool) ==
    /\ runBtnDisabled' = updateUI(selectedRepos)
    /\ notification' = "scan completed"
    /\ challenges' = updateComparison(
                         addChallenge(challenges,
                                      IF tool = "syft" THEN "SYFT Scanning Complete"
                                      ELSE "OWASP Scanning Complete"))

\* runTool(tool), from the click on an enabled run button to the first await
RunTool(tool) ==
    /\ UserActs
    /\ ~runBtnDisabled[tool]
    /\ UNCHANGED <<repositories, selectedRepos, sboms, rateLimit, adds, env, calc,
                   reports>>
    /\ IF selectedRepos = <<>> THEN
           /\ notification' = "Please select at least one repository first"
           /\ UNCHANGED <<scans, scansStarted, runBtnDisabled, challenges>>
       ELSE LET i == NextPresent(repositories, selectedRepos, 1) IN
           IF i > Len(selectedRepos) THEN
               /\ RunToolComplete(tool)
               /\ UNCHANGED <<scans, scansStarted>>
           ELSE
               /\ IF env.serial THEN scans = <<>> ELSE Len(scans) < env.calls
               /\ scansStarted < env.scanStarts
               /\ Cardinality(DOMAIN repositories) <= env.scanCatalog
               /\ scansStarted' = scansStarted + 1
               /\ scans' = Append(scans, [tool |-> tool, reposArray |-> selectedRepos,
                                          i |-> i, pc |-> "sleep", totalScanned |-> 0])
               /\ runBtnDisabled' = [runBtnDisabled EXCEPT ![tool] = TRUE]
               /\ UNCHANGED <<notification, challenges>>

\* after sleep(500): both documents are generated and saved
RunToolSave(k) ==
    /\ k \in 1..Len(scans) /\ scans[k].pc = "sleep"
    /\ LET f == scans[k]
           repoId == f.reposArray[f.i]
       IN  /\ SetStorage(saveSBOM(saveSBOM(Storage, f.tool, repoId, "cyclonedx"),
                                  f.tool, repoId, "spdx"))
           /\ scans' = [scans EXCEPT ![k].pc = "pause",
                                     ![k].totalScanned = f.totalScanned + 1]
    /\ UNCHANGED <<rateLimit, adds, runBtnDisabled, notification, scansStarted, env, calc,
                   challenges, reports>>

\* after the random pause: the next repository, or the end of the scan
RunToolNext(k) ==
    /\ k \in 1..Len(scans) /\ scans[k].pc = "pause"
    /\ UNCHANGED <<repositories, selectedRepos, sboms, rateLimit, adds, scansStarted,
                   env, calc, reports>>
    /\ LET f == scans[k]
           i == NextPresent(repositories, f.reposArray, f.i + 1)
       IN  IF i > Len(f.reposArray) THEN
               /\ RunToolComplete(f.tool)
               /\ scans' = RemoveAt(scans, k)
           ELSE
               /\ scans' = [scans EXCEPT ![k].pc = "sleep", ![k].i = i]
               /\ UNCHANGED <<runBtnDisabled, notification, challenges>>

\* generateReport, from the click on the enabled report button to its await
GenerateReport ==
    /\ UserActs
    /\ ~runBtnDisabled["generateReport"]
    /\ UNCHANGED <<repositories, selectedRepos, sboms, rateLimit, adds, scans,
                   scansStarted, env, calc, challenges>>
    /\ IF selectedRepos = <<>> THEN
           /\ notification' = "Please select repositories first"
           /\ UNCHANGED <<runBtnDisabled, reports>>
       ELSE
           /\ IF env.serial THEN reports = 0 ELSE reports < env.calls
           /\ reports' = reports + 1
           /\ runBtnDisabled' = [runBtnDisabled EXCEPT !["generateReport"] = TRUE]
           /\ UNCHANGED notification

\* after sleep(1500): the report is built from the stores and downloaded,
\* the button is enabled again and the report is logged
GenerateReportDone ==
    /\ reports > 0
    /\ reports' = reports - 1
    /\ runBtnDisabled' = [runBtnDisabled EXCEPT !["generateReport"] = FALSE]
    /\ challenges' = addChallenge(challenges, "Analysis Report Generated")
    /\ notification' = "Report generated"
    /\ UNCHANGED <<repositories, selectedRepos, sboms, rateLimit, adds, scans,
                   scansStarted, env, calc>>

(***************************************************************************)
(* The sessions explored                                                   *)
(***************************************************************************)
UrlSlug == Str(<<"a", "/", "b">>)

UrlFull == Str(<<"h", "t", "t", "p", "s", ":", "/", "/", "g", "i", "t", "h", "u", "b",
                 ".", "c", "o", "m", "/", "a", "/", "b", ".", "g", "i", "t">>)

UrlNoSlug == Str(<<"g", "i", "t", "h", "u", "b", ".", "c", "o", "m", "/", "x">>)

\* a package.json with one dependency and one devDependency
PkgSmall ==
    PackageJson(<< <<(<<"left-pad">>), (<<"1.0.0">>)>> >>,
                << <<(<<"@", "babel/core">>), (<<"7.0.0">>)>> >>)

\* runTool calls that may reach an await in one session
MaxScanStarts == 1

\* in the session of overlapping calls: the calls of one handler that may
\* be suspended at the same time, and the runTool calls of the session
OverlapCalls == 2

\* the catalog size up to which the user clicks a run button, in the
\* sessions that are about something else than scans
ScanCatalog == 1

\* the server of the plain sessions: every repository has 50 stars and a
\* package.json, no request fails by itself, no rate-limit header is sent
PlainServer ==
    [stars |-> {50},
     languages |-> {"JavaScript"},
     found |-> {{"package.json"}},
     contents |-> {PkgSmall},
     failed |-> {{}},
     remaining |-> {<<>>},
     reset |-> {<<>>},
     draws |-> {"min"},
     logs |-> FALSE]

\* A session says in serial whether the user starts a call of a handler
\* only when no call of that handler is suspended (else calls tells how
\* many may be), and in keepsActing whether the user goes on clicking
\* once a scan has been started.

\* two URLs, one of them without a slug; calls do not overlap one another
MainEnv ==
    [urls |-> {UrlSlug, UrlNoSlug},
     serial |-> TRUE,
     calls |-> OverlapCalls,
     scanStarts |-> MaxScanStarts,
     scanCatalog |-> Cardinality({UrlSlug, UrlNoSlug}),
     keepsActing |-> TRUE] @@ PlainServer

\* one URL; calls of the same handler overlap
OverlapEnv ==
    [urls |-> {UrlSlug},
     serial |-> FALSE,
     calls |-> OverlapCalls,
     scanStarts |-> OverlapCalls,
     scanCatalog |-> ScanCatalog,
     keepsActing |-> TRUE] @@ PlainServer

\* a URL of the GitHub host with no owner/repo path: no slug can be derived
HostOnly(c) == GithubHost \o Str(<<c>>)

\* six URLs, enough to reach the selection limit; the session ends with a
\* scan started while the catalog is small
SelectEnv ==
    [urls |-> {UrlSlug, HostOnly("a"), HostOnly("b"), HostOnly("c"), HostOnly("x"),
               HostOnly("p")},
     serial |-> TRUE,
     calls |-> OverlapCalls,
     scanStarts |-> MaxScanStarts,
     scanCatalog |-> ScanCatalog,
     keepsActing |-> FALSE] @@ PlainServer

\* a URL with a character outside Latin-1 (U+0440), on which btoa throws
UrlWide == <<1088>> \o Str(<<"/", "b">>)

\* the server that answers in every way the code distinguishes: requests
\* fail or not, package.json is absent, empty, malformed or well-formed,
\* rate-limit headers are sent or not
FetchEnv ==
    [urls |-> {UrlSlug, UrlNoSlug, UrlWide},
     serial |-> TRUE,
     calls |-> OverlapCalls,
     scanStarts |-> MaxScanStarts,
     scanCatalog |-> ScanCatalog,
     keepsActing |-> FALSE,
     stars |-> {50},
     languages |-> {"JavaScript"},
     found |-> {{}, {"package.json"}},
     contents |-> {PkgSmall, InvalidJson, NoContent},
     failed |-> {{}, {"package.json", "yarn.lock"}},
     remaining |-> {<<>>, Str(<<"0">>), Str(<<"4", "2">>)},
     reset |-> {<<>>, Str(<<"1", "7">>)},
     draws |-> {"min", "max"},
     logs |-> FALSE]

\* one URL on a server whose repositories have star counts at and around
\* every threshold of estimateDependencies, with or without a package.json
\* that lists dependencies
StarsEnv ==
    [urls |-> {UrlSlug},
     serial |-> TRUE,
     calls |-> OverlapCalls,
     scanStarts |-> MaxScanStarts,
     scanCatalog |-> ScanCatalog,
     keepsActing |-> FALSE,
     stars |-> {0, 100, 101, 1000, 1001, 10000, 10001, 50000, 50001},
     languages |-> {"JavaScript"},
     found |-> {{}, {"package.json"}},
     contents |-> {PkgSmall, PackageJson(<<>>, <<>>)},
     failed |-> {{}},
     remaining |-> {<<>>},
     reset |-> {<<>>},
     draws |-> {"min", "max"},
     logs |-> FALSE]

\* a slug of five characters, and the same with "?" after it
UrlFive == Str(<<"a", "b", "/", "c", "d">>)

UrlFiveQuery == UrlFive \o Str(<<"?">>)

\* two URLs that differ in their last character only
TwinEnv ==
    [urls |-> {UrlFive, UrlFiveQuery},
     serial |-> TRUE,
     calls |-> OverlapCalls,
     scanStarts |-> MaxScanStarts,
     scanCatalog |-> ScanCatalog,
     keepsActing |-> FALSE] @@ PlainServer

\* a session that follows the challenge log: a URL with a slug and one on
\* which btoa throws
LogEnv ==
    [urls |-> {UrlSlug, UrlWide},
     serial |-> TRUE,
     calls |-> OverlapCalls,
     scanStarts |-> MaxScanStarts,
     scanCatalog |-> ScanCatalog,
     keepsActing |-> TRUE,
     logs |-> TRUE] @@ PlainServer

InitApp(e) ==
    /\ env = e
    /\ repositories = EmptyMap
    /\ selectedRepos = <<>>
    /\ sboms = EmptySboms
    /\ rateLimit = [remaining |-> 60, reset |-> 0]
    /\ adds = <<>>
    /\ scans = <<>>
    /\ runBtnDisabled = updateUI(<<>>)
    /\ notification = "none"
    /\ scansStarted = 0
    /\ challenges = Follow(<<Entry("Initial Setup", <<>>)>>)
    /\ reports = 0

InitWith(e) == InitApp(e) /\ calc = [op |-> "none"]

Init == InitWith(MainEnv)

InitOverlap == InitWith(OverlapEnv)

InitSelect == InitWith(SelectEnv)

InitFetch == InitWith(FetchEnv)

InitStars == InitWith(StarsEnv)

InitTwin == InitWith(TwinEnv)

InitLog == InitWith(LogEnv)

Ids == {generateRepoId(Trim(u)) : u \in {v \in env.urls : ~BtoaThrows(v)}}

Next ==
    \/ \E u \in env.urls : AddRepository(u)
    \/ \E i \in DOMAIN adds : AddProbeDone(i)
    \/ \E i \in DOMAIN adds : AddInfoDone(i)
    \/ \E i \in DOMAIN adds : AddLangsDone(i)
    \/ \E i \in DOMAIN adds : AddManifestsDone(i)
    \/ \E id \in Ids : RemoveRepository(id)
    \/ ClearAllRepositories
    \/ \E id \in Ids : ToggleRepoSelection(id)
    \/ \E t \in Tools : RunTool(t)
    \/ \E k \in DOMAIN scans : RunToolSave(k)
    \/ \E k \in DOMAIN scans : RunToolNext(k)
    \/ NotificationExpire

Spec == Init /\ [][Next]_vars

SpecOverlap == InitOverlap /\ [][Next]_vars

SpecSelect == InitSelect /\ [][Next]_vars

SpecFetch == InitFetch /\ [][Next]_vars

SpecStars == InitStars /\ [][Next]_vars

SpecTwin == InitTwin /\ [][Next]_vars

\* the handlers above and generateReport
NextLog == Next \/ GenerateReport \/ GenerateReportDone

SpecLog == InitLog /\ [][NextLog]_vars

(***************************************************************************)
(* The synchronous methods, followed one call at a time.  A dependency     *)
(* string is the sequence of its pieces: the runs of characters other      *)
(* than "@", and "@" itself.                                               *)
(***************************************************************************)
appVars == <<repositories, selectedRepos, sboms, rateLimit, adds, scans,
             runBtnDisabled, notification, scansStarted, env, challenges, reports>>

Names(ns) == [i \in 1..Len(ns) |-> <<ns[i]>>]

\* basePackages[repoData.fullName]?.[tool] || []
basePackages(fullName, tool) ==
    IF fullName = Str(<<"e", "x", "p", "r", "e", "s", "s", "j", "s", "/", "e",
                      "x", "p", "r", "e", "s", "s">>)
    THEN (IF tool = "syft"
          THEN Names(<<"express", "body-parser", "cookie-parser", "debug", "morgan",
                      "cors", "helmet">>)
          ELSE Names(<<"express", "body-parser", "cookie-parser", "debug", "cors",
                      "helmet", "serve-favicon", "method-override">>))
    ELSE IF fullName = Str(<<"p", "a", "l", "l", "e", "t", "s", "/", "f", "l", "a",
                      "s", "k">>)
    THEN (IF tool = "syft"
          THEN Names(<<"flask", "werkzeug", "jinja2", "itsdangerous", "click",
                      "markupsafe">>)
          ELSE Names(<<"flask", "werkzeug", "jinja2", "itsdangerous", "click",
                      "markupsafe", "blinker">>))
    ELSE IF fullName = Str(<<"s", "p", "r", "i", "n", "g", "-", "p", "r", "o", "j",
                      "e", "c", "t", "s", "/", "s", "p", "r", "i", "n", "g", "-",
                      "b", "o", "o", "t">>)
    THEN (IF tool = "syft"
          THEN Names(<<"spring-boot", "spring-core", "spring-web", "spring-context",
                      "jackson", "tomcat">>)
          ELSE Names(<<"spring-boot", "spring-core", "spring-web", "spring-context",
                      "jackson", "tomcat", "slf4j", "validation-api">>))
    ELSE IF fullName = Str(<<"r", "a", "i", "l", "s", "/", "r", "a", "i", "l", "s">>)
    THEN (IF tool = "syft"
          THEN Names(<<"rails", "activerecord", "actionpack", "activesupport",
                      "railties", "rack">>)
          ELSE Names(<<"rails", "activerecord", "actionpack", "activesupport",
                      "railties", "rack", "sprockets">>))
    ELSE IF fullName = Str(<<"v", "u", "e", "j", "s", "/", "v", "u", "e">>)
    THEN (IF tool = "syft"
          THEN Names(<<"vue", "vue-router", "vuex", "compiler-sfc", "reactivity",
                      "shared">>)
          ELSE Names(<<"vue", "vue-router", "vuex", "compiler-sfc", "reactivity",
                      "shared", "test-utils">>))
    ELSE <<>>

\* the extraPackages of the first branch, and of the fallback branch
extraPackages ==
    <<"lodash", "axios", "moment", "chalk", "uuid", "dotenv", "jest", "mocha", "sinon",
      "nyc", "eslint", "webpack", "babel", "typescript", "react", "redux", "angular">>

extraPackagesFallback ==
    <<"lodash", "axios", "moment", "chalk", "uuid", "dotenv", "jest", "mocha", "sinon",
      "nyc", "eslint", "webpack", "babel", "typescript", "react", "redux", "vue",
      "angular">>

\* [...new Set(s)]: the first occurrence of every element, in order
RECURSIVE Dedupe(_)
Dedupe(s) ==
    IF s = <<>> THEN <<>>
    ELSE LET init == Dedupe(SubSeq(s, 1, Len(s) - 1))
             last == s[Len(s)]
         IN  IF SetHas(init, last) THEN init ELSE Append(init, last)

\* `${major}.${minor}.${patch}`
VersionString(major, minor, patch) ==
    ToString(major) \o "." \o ToString(minor) \o "." \o ToString(patch)

\* the three digits of a version, drawn low together or high together
VersionDraws ==
    {v \in Draws(5) \X Draws(10) \X Draws(10) : (v[1] = 0) = (v[2] = 0) /\ (v[2] = 0) = (v[3] = 0)}

\* the loop body whose major version is floor(random * 5), without the + 1
RandomPackagesMajorZero(pool) ==
    {DepString(<<pool[k + 1]>>, <<VersionString(v[1], v[2], v[3])>>) :
        k \in Draws(Len(pool)), v \in VersionDraws}

\* `${pkg}@${version}` for one iteration of a loop over pool
RandomPackages(pool) ==
    {DepString(<<pool[k + 1]>>, <<VersionString(v[1] + 1, v[2], v[3])>>) :
        k \in Draws(Len(pool)), v \in VersionDraws}

\* repoData.parsedDependencies, undefined in a mock record
parsedDependencies(repoData) ==
    IF "parsedDependencies" \in DOMAIN repoData THEN repoData.parsedDependencies ELSE <<>>

\* the first branch without the tool-specific entries
GenBaseParsedOnly(parsed, toolSpecific) == Dedupe(parsed)

\* [...new Set([...base, ...toolSpecific])]
GenBase(parsed, toolSpecific) == Dedupe(parsed \o toolSpecific)

\* generateDependencies up to its loop: the locals, for every numToAdd
generateDependenciesStart(repoData, tool) ==
    IF parsedDependencies(repoData) # <<>>
    THEN {[branch |-> "parsed",
           base |-> GenBase(parsedDependencies(repoData),
                            basePackages(repoData.fullName, tool)),
           i |-> 0,
           n |-> IF k < 5 THEN k ELSE 5] : k \in Draws(10)}
    ELSE {[branch |-> "fallback",
           base |-> basePackages(repoData.fullName, tool),
           i |-> Len(basePackages(repoData.fullName, tool)),
           n |-> IF repoData.dependencies # 0 THEN repoData.dependencies ELSE 50]}

\* the value returned after the loop
generateDependenciesReturn(branch, base) ==
    IF branch = "parsed" THEN base ELSE Dedupe(base)

GenerateCall ==
    /\ calc.op = "generateDependencies" /\ calc.pc = "call"
    /\ \E l \in generateDependenciesStart(calc.repoData, calc.tool) :
          calc' = [calc EXCEPT !.pc = "loop", !.branch = l.branch, !.base = l.base,
                               !.i = l.i, !.n = l.n]
    /\ UNCHANGED appVars

GeneratePush ==
    /\ calc.op = "generateDependencies" /\ calc.pc = "loop" /\ calc.i < calc.n
    /\ \E d \in RandomPackages(IF calc.branch = "parsed" THEN extraPackages
                               ELSE extraPackagesFallback) :
          calc' = [calc EXCEPT !.base = Append(@, d), !.i = @ + 1]
    /\ UNCHANGED appVars

GenerateReturn ==
    /\ calc.op = "generateDependencies" /\ calc.pc = "loop" /\ calc.i >= calc.n
    /\ calc' = [calc EXCEPT !.pc = "done",
                            !.result = generateDependenciesReturn(calc.branch, calc.base)]
    /\ UNCHANGED appVars

\* deps.forEach((dep) => set.add(dep))
RECURSIVE AddAll(_, _)
AddAll(set, deps) ==
    IF deps = <<>> THEN set ELSE AddAll(SetAdd(set, Head(deps)), Tail(deps))

\* the end of getCommonDependencies with the two filters of missing swapped
CompareResultSwapped(allSyftDeps, allOwaspDeps) ==
    LET common == SelectSeq(allSyftDeps, LAMBDA d : SetHas(allOwaspDeps, d))
        missingFromOwasp == SelectSeq(allOwaspDeps, LAMBDA d : ~SetHas(allSyftDeps, d))
        missingFromSyft == SelectSeq(allSyftDeps, LAMBDA d : ~SetHas(allOwaspDeps, d))
    IN  [syftTotal |-> Len(allSyftDeps),
         owaspTotal |-> Len(allOwaspDeps),
         common |-> common,
         missing |-> missingFromOwasp \o missingFromSyft,
         missingDetails |-> [fromOwasp |-> missingFromOwasp, fromSyft |-> missingFromSyft]]

\* the end of getCommonDependencies: the three filters and the result
CompareResult(allSyftDeps, allOwaspDeps) ==
    LET common == SelectSeq(allSyftDeps, LAMBDA d : SetHas(allOwaspDeps, d))
        missingFromOwasp == SelectSeq(allSyftDeps, LAMBDA d : ~SetHas(allOwaspDeps, d))
        missingFromSyft == SelectSeq(allOwaspDeps, LAMBDA d : ~SetHas(allSyftDeps, d))
    IN  [syftTotal |-> Len(allSyftDeps),
         owaspTotal |-> Len(allOwaspDeps),
         common |-> common,
         missing |-> missingFromOwasp \o missingFromSyft,
         missingDetails |-> [fromOwasp |-> missingFromOwasp, fromSyft |-> missingFromSyft]]

\* what generateDependencies may return in a session of comparisons: a few
\* arrays over four dependency strings, one of them with a repeated element
SynthResults ==
    {<<>>, Names(<<"x", "y", "z">>), Names(<<"y", "z", "w">>), Names(<<"w", "x", "w">>)}

\* one turn of selectedRepos.forEach: the callback for the next id
CompareVisit ==
    /\ calc.op = "getCommonDependencies" /\ calc.pc = "forEach"
    /\ calc.k <= Len(selectedRepos)
    /\ IF Has(repositories, selectedRepos[calc.k])
       THEN \E syftDeps \in SynthResults, owaspDeps \in SynthResults :
               calc' = [calc EXCEPT
                           !.k = @ + 1,
                           !.synth = Append(@, [syftDeps |-> syftDeps,
                                                owaspDeps |-> owaspDeps]),
                           !.allSyftDeps = AddAll(@, syftDeps),
                           !.allOwaspDeps = AddAll(@, owaspDeps)]
       ELSE calc' = [calc EXCEPT !.k = @ + 1]
    /\ UNCHANGED appVars

CompareReturn ==
    /\ calc.op = "getCommonDependencies" /\ calc.pc = "forEach"
    /\ calc.k > Len(selectedRepos)
    /\ calc' = [calc EXCEPT !.pc = "done",
                            !.result = CompareResult(calc.allSyftDeps, calc.allOwaspDeps)]
    /\ UNCHANGED appVars

\* the index of the first "@" of dep, 0 if there is none
RECURSIVE IndexOfAt(_, _)
IndexOfAt(dep, p) ==
    IF p > Len(dep) THEN 0 ELSE IF dep[p] = At THEN p ELSE IndexOfAt(dep, p + 1)

\* dep.split("@"): the strings between the "@"s, empty ones included
RECURSIVE Split(_)
Split(dep) ==
    LET p == IndexOfAt(dep, 1)
    IN  IF p = 0 THEN <<dep>>
        ELSE <<SubSeq(dep, 1, p - 1)>> \o Split(SubSeq(dep, p + 1, Len(dep)))

\* value || "unknown" for a string, <<>> standing for undefined and for ""
OrUnknown(value) == IF value = <<>> THEN <<"unknown">> ELSE value

\* the callback of components: const [name, version] = dep.split("@")
Component(dep) ==
    LET parts == Split(dep)
        name == parts[1]
        version == IF Len(parts) >= 2 THEN parts[2] ELSE <<>>
    IN  [type |-> "library",
         bomRef |-> dep,
         name |-> name,
         version |-> OrUnknown(version),
         purl |-> <<"pkg:npm/">> \o name \o <<At>> \o OrUnknown(version)]

\* one element of dependencies.map for components
CycloneDXMap ==
    /\ calc.op = "generateCycloneDXSBOM" /\ calc.pc = "map"
    /\ calc.i <= Len(calc.dependencies)
    /\ calc' = [calc EXCEPT !.i = @ + 1,
                            !.components = Append(@, Component(calc.dependencies[calc.i]))]
    /\ UNCHANGED appVars

\* the document is returned
CycloneDXReturn ==
    /\ calc.op = "generateCycloneDXSBOM" /\ calc.pc = "map"
    /\ calc.i > Len(calc.dependencies)
    /\ calc' = [calc EXCEPT
                   !.pc = "done",
                   !.result = [bomFormat |-> "CycloneDX",
                               components |-> calc.components,
                               dependencies |->
                                   [j \in 1..Len(calc.dependencies) |->
                                       [ref |-> calc.dependencies[j], dependsOn |-> <<>>]]]]
    /\ UNCHANGED appVars

(***************************************************************************)
(* The sessions of single calls                                            *)
(***************************************************************************)
\* Math.random draws its smallest or its largest value
BothDraws == [MainEnv EXCEPT !.draws = {"min", "max"}]

LeftPad == DepString(<<"left-pad">>, <<"1.0.0">>)

Chalk == DepString(<<"chalk">>, <<"2.0.0">>)

\* the records generateDependencies is called with, by the fields it
\* reads: with parsed dependencies (in the override table or not, one
\* listing a package twice) and without
GenerateRepos ==
    {[fullName |-> UrlSlug, dependencies |-> 2, parsedDependencies |-> <<LeftPad, Chalk>>],
     [fullName |-> UrlSlug, dependencies |-> 2, parsedDependencies |-> <<LeftPad, LeftPad>>],
     [fullName |-> Str(<<"e", "x", "p", "r", "e", "s", "s", "j", "s", "/", "e", "x", "p", "r", "e", "s", "s">>), dependencies |-> 2,
      parsedDependencies |-> <<LeftPad, Chalk>>],
     [fullName |-> UrlSlug, dependencies |-> 5, parsedDependencies |-> <<>>],
     [fullName |-> Str(<<"e", "x", "p", "r", "e", "s", "s", "j", "s", "/", "e", "x", "p", "r", "e", "s", "s">>), dependencies |-> 9, parsedDependencies |-> <<>>]}

InitGenerate ==
    /\ InitApp(BothDraws)
    /\ \E r \in GenerateRepos, t \in Tools :
          calc = [op |-> "generateDependencies", pc |-> "call", repoData |-> r,
                  tool |-> t, branch |-> "none", base |-> <<>>, i |-> 0, n |-> 0,
                  result |-> <<>>]

NextGenerate == GenerateCall \/ GeneratePush \/ GenerateReturn

SpecGenerate == InitGenerate /\ [][NextGenerate]_vars

\* the repositories compared at once in a session of comparisons
MaxCompared == 2

\* the selections of at most n of the ids in ids, in every order
RECURSIVE Selections(_, _)
Selections(ids, n) ==
    IF n = 0 THEN {<<>>}
    ELSE LET shorter == Selections(ids, n - 1)
         IN  shorter \cup UNION {{Append(sel, id) : id \in ids \ Range(sel)} : sel \in shorter}

\* a catalog of the mock records of two URLs
CompareCatalog ==
    LET one == CHOOSE r \in createMockRepoData(UrlSlug) : TRUE
        two == CHOOSE r \in createMockRepoData(UrlNoSlug) : TRUE
    IN  MapSet(MapSet(EmptyMap, one.id, one), two.id, two)

InitCompare ==
    /\ env = MainEnv
    /\ repositories = CompareCatalog
    /\ selectedRepos \in Selections(DOMAIN CompareCatalog, MaxCompared)
    /\ sboms = EmptySboms
    /\ rateLimit = [remaining |-> 60, reset |-> 0]
    /\ adds = <<>>
    /\ scans = <<>>
    /\ runBtnDisabled = updateUI(selectedRepos)
    /\ notification = "none"
    /\ scansStarted = 0
    /\ challenges = <<>>
    /\ reports = 0
    /\ calc = [op |-> "getCommonDependencies", pc |-> "forEach", k |-> 1,
               synth |-> <<>>, allSyftDeps |-> <<>>, allOwaspDeps |-> <<>>,
               result |-> <<>>]

NextCompare == CompareVisit \/ CompareReturn

SpecCompare == InitCompare /\ [][NextCompare]_vars

\* the longest dependency list of a session of documents
MaxDeps == 3

\* the elements of a dependency list: name@version for a plain and for a
\* scoped package name, and a name alone as the override table has them
CycloneDXEntries ==
    {[name |-> <<"lodash">>, version |-> <<"4.17.21">>, bare |-> FALSE],
     [name |-> <<"left-pad">>, version |-> <<"1.0.0">>, bare |-> FALSE],
     [name |-> <<At, "babel/core">>, version |-> <<"7.0.0">>, bare |-> FALSE],
     [name |-> <<"express">>, version |-> <<>>, bare |-> TRUE]}

EntryString(e) == IF e.bare THEN e.name ELSE DepString(e.name, e.version)

RECURSIVE Lists(_, _)
Lists(S, n) ==
    IF n = 0 THEN {<<>>}
    ELSE Lists(S, n - 1) \cup {Append(l, x) : l \in Lists(S, n - 1), x \in S}

InitCycloneDX ==
    /\ InitApp(MainEnv)
    /\ \E entries \in Lists(CycloneDXEntries, MaxDeps) :
          calc = [op |-> "generateCycloneDXSBOM", pc |-> "map",
                  entries |-> entries,
                  dependencies |-> [j \in 1..Len(entries) |-> EntryString(entries[j])],
                  i |-> 1, components |-> <<>>, result |-> <<>>]

NextCycloneDX == CycloneDXMap \/ CycloneDXReturn

SpecCycloneDX == InitCycloneDX /\ [][NextCycloneDX]_vars

\* extractRepoFullName(url), one call: the argument is the written form of
\* a repository, owner/repo after a prefix and before a suffix
ExtractReturn ==
    /\ calc.op = "extractRepoFullName" /\ calc.pc = "call"
    /\ calc' = [calc EXCEPT !.pc = "done", !.result = extractRepoFullName(calc.url)]
    /\ UNCHANGED appVars

\* owner and repository names: letters, digits and hyphens in an owner,
\* dots as well in a repository
Owners == {Str(<<"a">>), Str(<<"a", "-", "b">>), Str(<<"x", "1">>)}

RepoNames ==
    {Str(<<"b">>), Str(<<"b", ".", "c">>), Str(<<"g", "i", "t">>),
     Str(<<".", "g", "i", "t", "h", "u", "b">>),
     Str(<<"g", "i", "t", "h", "u", "b", ".", "c", "o", "m">>)}

\* what precedes the slug: nothing, or the host with or without a scheme
UrlPrefixes ==
    {<<>>, GithubHost, Str(<<"h", "t", "t", "p", "s", ":", "/", "/">>) \o GithubHost,
     Str(<<"h", "t", "t", "p", ":", "/", "/", "w", "w", "w", ".">>) \o GithubHost}

UrlSuffixes == {<<>>, DotGit}

InitExtract ==
    /\ InitApp(MainEnv)
    /\ \E owner \in Owners, repo \in RepoNames, prefix \in UrlPrefixes,
          suffix \in UrlSuffixes :
          calc = [op |-> "extractRepoFullName", pc |-> "call", owner |-> owner,
                  repo |-> repo, prefix |-> prefix, suffix |-> suffix,
                  url |-> prefix \o owner \o <<Slash>> \o repo \o suffix,
                  result |-> <<>>]

NextExtract == ExtractReturn

SpecExtract == InitExtract /\ [][NextExtract]_vars

\* fetchDependencyFiles, one call followed request by request.  resp is
\* what the server answers for each candidate; k is the position of the
\* loop in manifestFiles, requests the requests made so far, answered the
\* number of them that have ended.
FetchFilesRequest ==
    /\ calc.op = "fetchDependencyFiles" /\ calc.pc = "for"
    /\ calc.k <= Len(manifestFiles)
    /\ calc' = [calc EXCEPT !.pc = "await",
                            !.requests = Append(@, manifestFiles[calc.k])]
    /\ UNCHANGED appVars

\* the loop that gives up at the first request that fails
FetchFilesAnswerStops ==
    /\ calc.op = "fetchDependencyFiles" /\ calc.pc = "await"
    /\ LET file == manifestFiles[calc.k]
           r == calc.resp[file]
       IN  calc' = [calc EXCEPT
               !.pc = IF r.status = 0 THEN "done" ELSE "for",
               !.k = @ + 1,
               !.answered = @ + 1,
               !.foundFiles = IF r.status = 200
                              THEN Append(@, [name |-> file, content |-> r.content])
                              ELSE @,
               !.result = IF r.status = 0 THEN calc.foundFiles ELSE @]
    /\ UNCHANGED appVars

\* the awaited request ends: a 200 response is pushed, any other response
\* is passed over, a rejection is caught and the loop continues
FetchFilesAnswer ==
    /\ calc.op = "fetchDependencyFiles" /\ calc.pc = "await"
    /\ LET file == manifestFiles[calc.k]
           r == calc.resp[file]
       IN  calc' = [calc EXCEPT
               !.pc = "for",
               !.k = @ + 1,
               !.answered = @ + 1,
               !.foundFiles = IF r.status = 200
                              THEN Append(@, [name |-> file, content |-> r.content])
                              ELSE @]
    /\ UNCHANGED appVars

FetchFilesReturn ==
    /\ calc.op = "fetchDependencyFiles" /\ calc.pc = "for"
    /\ calc.k > Len(manifestFiles)
    /\ calc' = [calc EXCEPT !.pc = "done", !.result = calc.foundFiles]
    /\ UNCHANGED appVars

\* the candidates whose answer varies in the session: the first, one in
\* the middle and the last of the list; the others are absent
ProbedFiles == {"package.json", "yarn.lock", "project.clj"}

ProbeEnv == [MainEnv EXCEPT !.found = SUBSET ProbedFiles, !.failed = SUBSET ProbedFiles]

InitProbes ==
    /\ InitApp(ProbeEnv)
    /\ \E resp \in Responses :
          calc = [op |-> "fetchDependencyFiles", pc |-> "for", resp |-> resp, k |-> 1,
                  requests |-> <<>>, answered |-> 0, foundFiles |-> <<>>,
                  result |-> <<>>]

NextProbes == FetchFilesRequest \/ FetchFilesAnswer \/ FetchFilesReturn

SpecProbes == InitProbes /\ [][NextProbes]_vars

(***************************************************************************)
(* Properties                                                              *)
(***************************************************************************)
\* the id under which a typed url is stored
IdOf(raw) == generateRepoId(Trim(raw))

\* a step in which an add call returns a record to its caller
AddReturns(id) ==
    \/ \E u \in env.urls :
          /\ ~BtoaThrows(Trim(u)) /\ IdOf(u) = id
          /\ addRepositoryStart(repositories, Trim(u)) = "mock"
          /\ AddRepository(u)
    \/ \E i \in 1..Len(adds) :
          /\ generateRepoId(adds[i].url) = id
          /\ AddProbeDone(i) \/ AddInfoDone(i) \/ AddManifestsDone(i)
          /\ Len(adds') < Len(adds)

\* a step in which an add call for an id of the catalog is made
ReAdd(u) ==
    /\ Trim(u) # <<>> /\ ~BtoaThrows(Trim(u))
    /\ Has(repositories, IdOf(u))
    /\ AddRepository(u)

\* C1: an add call that returns a record leaves a record under the url's
\* id; the id stays in the catalog until a removal or a clear-all; and an
\* add call for an id of the catalog returns null ("Repository already
\* added") and changes nothing: not the record, the selection, the
\* artifacts, nor the requests in flight.
C1_ReAddReturnsNull ==
    [][/\ \A id \in Ids : AddReturns(id) => Has(repositories', id)
       /\ \A id \in Ids :
             Has(repositories, id) /\ ~Has(repositories', id)
                 => RemoveRepository(id) \/ ClearAllRepositories
       /\ \A u \in env.urls :
             ReAdd(u) => /\ notification' = "Repository already added"
                         /\ UNCHANGED <<repositories, selectedRepos, sboms, adds,
                                        rateLimit>>]_vars

\* an add call has just returned null for a url whose record is still there
C1_Witness ==
    /\ notification = "Repository already added"
    /\ \E u \in env.urls : ~BtoaThrows(Trim(u)) /\ Has(repositories, IdOf(u))

\* a click on the checkbox of a catalog entry
Toggles(id) == Has(repositories, id) /\ ToggleRepoSelection(id)

\* C2: at most five ids are ever selected; a toggle of an unselected id
\* while five are selected fails ("Maximum 5 repositories can be selected")
\* and changes nothing; a toggle of a selected id always deselects it, and
\* a toggle of an unselected id below the limit selects it.
C2_SelectionLimit ==
    /\ [](Len(selectedRepos) <= 5 /\ Cardinality(Range(selectedRepos)) = Len(selectedRepos))
    /\ [][\A id \in Ids :
             Toggles(id) =>
                IF SetHas(selectedRepos, id)
                THEN ~SetHas(selectedRepos', id)
                ELSE IF Len(selectedRepos) = 5
                THEN /\ notification' = "Maximum 5 repositories can be selected"
                     /\ UNCHANGED <<repositories, selectedRepos, sboms>>
                ELSE SetHas(selectedRepos', id)]_vars

\* the limit has just refused a sixth id
C2_Witness ==
    /\ notification = "Maximum 5 repositories can be selected"
    /\ Len(selectedRepos) = 5
    /\ Cardinality(DOMAIN repositories) = 6

\* what the storage holds about the ids other than id
Others(st, id) ==
    [repositories |-> [k \in DOMAIN st.repositories \ {id} |-> st.repositories[k]],
     selectedRepos |-> SelectSeq(st.selectedRepos, LAMBDA x : x # id),
     sboms |-> [t \in Tools |-> [k \in DOMAIN st.sboms[t] \ {id} |-> st.sboms[t][k]]]]

Absent(st, id) ==
    /\ ~Has(st.repositories, id)
    /\ ~SetHas(st.selectedRepos, id)
    /\ \A t \in Tools : ~Has(st.sboms[t], id)

StorageNext ==
    [repositories |-> repositories', selectedRepos |-> selectedRepos', sboms |-> sboms']

\* C3: a removal leaves the id in neither the catalog, the selection nor
\* either artifact store, and leaves what is held about every other id as
\* it was; removing again, or removing an id that is nowhere, changes nothing.
C3_RemoveRepository ==
    /\ [][\A id \in Ids :
             RemoveRepository(id) =>
                /\ Absent(StorageNext, id)
                /\ Others(StorageNext, id) = Others(Storage, id)]_vars
    /\ [](\A id \in Ids :
             /\ removeRepository(removeRepository(Storage, id), id)
                    = removeRepository(Storage, id)
             /\ Absent(Storage, id) => removeRepository(Storage, id) = Storage)

\* one of two scanned and selected repositories has just been removed
C3_Witness ==
    /\ notification = "Removed repository"
    /\ \E id \in Ids : Absent(Storage, id)
    /\ \E id \in DOMAIN repositories :
          SetHas(selectedRepos, id) /\ \E t \in Tools : Has(sboms[t], id)

\* C4: every selected id and every key of either artifact store is an id
\* of the catalog, in every state.
C4_NoOrphans ==
    /\ Range(selectedRepos) \subseteq DOMAIN repositories
    /\ \A t \in Tools : DOMAIN sboms[t] \subseteq DOMAIN repositories

\* C5: a catalog record with an artifact in either store has scanned =
\* TRUE, and the scanned flag of a record never goes from TRUE to FALSE
\* while its id stays in the catalog.
C5_ScannedFlag ==
    /\ [](\A id \in DOMAIN repositories :
             (\E t \in Tools : Has(sboms[t], id)) => repositories[id].scanned)
    /\ [][\A id \in DOMAIN repositories :
             repositories[id].scanned /\ Has(repositories', id)
                 => repositories'[id].scanned]_vars

\* a record has been stored under id, unscanned, and returned
Stored(id) ==
    /\ Has(repositories', id)
    /\ ~repositories'[id].scanned
    /\ repositories'[id].id = id
    /\ notification' = "Added repository"

\* an add call that ends before any request is made
AddEndsAtOnce(u) ==
    /\ Trim(u) # <<>> /\ ~BtoaThrows(Trim(u))
    /\ AddRepository(u) /\ adds' = adds

\* the probes of the manifest files met a failed request, or package.json
\* was there and did not parse
ManifestFailure(resp) ==
    \/ \E f \in Range(manifestFiles) : resp[f].status = 0
    \/ resp["package.json"].status = 200 /\ resp["package.json"].content.kind = "invalid"

\* what C6 and its amendment agree on: null is returned only for an id of
\* the catalog, and a failure in slug resolution, the probe or the
\* metadata fetch stores and returns a mock record with scanned = FALSE
AddFailsToMock ==
    /\ \A u \in env.urls :
          AddEndsAtOnce(u) =>
             IF Has(repositories, IdOf(u))
             THEN notification' = "Repository already added"
             ELSE /\ extractRepoFullName(Trim(u)) = <<>>
                  /\ Stored(IdOf(u)) /\ IsMock(repositories'[IdOf(u)])
    /\ \A u \in env.urls :
          AddRepository(u) /\ notification' = "Repository already added"
                           /\ notification # "Repository already added"
              => Has(repositories, IdOf(u))
    /\ \A i \in 1..Len(adds) :
          LET id == generateRepoId(adds[i].url) IN
          /\ AddProbeDone(i) /\ Len(adds') < Len(adds)
                => Stored(id) /\ IsMock(repositories'[id])
          /\ \A o \in Outcomes :
                AddInfoWith(i, o) /\ o.kind # "ok"
                    => Stored(id) /\ IsMock(repositories'[id])

RECURSIVE Numeral(_)
Numeral(n) == IF n < 10 THEN <<48 + n>> ELSE Numeral(n \div 10) \o <<48 + (n % 10)>>

\* the integer a header value denotes
HeaderValue(h) == CHOOSE n \in 0..99 : Numeral(n) = h

\* a step in which a response with the headers of o reaches updateRateLimit
Responds(o) ==
    /\ o.kind # "throw"
    /\ \E i \in 1..Len(adds) : AddInfoWith(i, o) \/ AddLangsWith(i, o)

\* C10: the rate-limit state changes only when a response reaches
\* updateRateLimit; a remaining header sets remaining to its integer
\* value, a reset header sets reset to its value times 1000, a header that
\* is lacking leaves the prior value; nothing else writes the state, so
\* remaining is never decremented locally.
C10_RateLimitFromHeaders ==
    [][/\ rateLimit' # rateLimit => \E o \in Outcomes : Responds(o)
       /\ \A o \in Outcomes :
             Responds(o) =>
                /\ rateLimit'.remaining =
                      IF o.headers.remaining = <<>> THEN rateLimit.remaining
                      ELSE HeaderValue(o.headers.remaining)
                /\ rateLimit'.reset =
                      IF o.headers.reset = <<>> THEN rateLimit.reset
                      ELSE HeaderValue(o.headers.reset) * 1000]_vars

\* a response with a remaining header and no reset header has been read,
\* after one with a reset header
C10_Witness ==
    /\ rateLimit.remaining = 42
    /\ rateLimit.reset = 17000
    /\ \E i \in 1..Len(adds) : adds[i].pc = "manifests"

\* the strings of an array
Elements(deps) == {deps[j] : j \in 1..Len(deps)}

NoRepeats(deps) == Cardinality(Elements(deps)) = Len(deps)

\* the union of the syft arrays, and of the owasp arrays, that the
\* callback got for the selected repositories of the catalog
UnionSyft == UNION {Elements(calc.synth[j].syftDeps) : j \in 1..Len(calc.synth)}

UnionOwasp == UNION {Elements(calc.synth[j].owaspDeps) : j \in 1..Len(calc.synth)}

Compared == calc.op = "getCommonDependencies" /\ calc.pc = "done"

\* C7: with A the union of the syft arrays and B the union of the owasp
\* arrays over the selected repositories of the catalog, getCommonDependencies
\* returns syftTotal = |A|, owaspTotal = |B|, common = A \cap B,
\* fromOwasp = A \ B, fromSyft = B \ A, each without repeats, and missing =
\* fromOwasp followed by fromSyft.
C7_CommonDependencies ==
    Compared =>
        LET r == calc.result IN
        /\ Len(calc.synth) = Cardinality(Range(selectedRepos) \cap DOMAIN repositories)
        /\ r.syftTotal = Cardinality(UnionSyft)
        /\ r.owaspTotal = Cardinality(UnionOwasp)
        /\ Elements(r.common) = UnionSyft \cap UnionOwasp
        /\ Elements(r.missingDetails.fromOwasp) = UnionSyft \ UnionOwasp
        /\ Elements(r.missingDetails.fromSyft) = UnionOwasp \ UnionSyft
        /\ NoRepeats(r.common)
        /\ NoRepeats(r.missingDetails.fromOwasp)
        /\ NoRepeats(r.missingDetails.fromSyft)
        /\ r.missing = r.missingDetails.fromOwasp \o r.missingDetails.fromSyft

\* the comparison of {x, y, z} with {y, z, w} has returned
C7_Witness ==
    /\ Compared
    /\ UnionSyft = Elements(Names(<<"x", "y", "z">>))
    /\ UnionOwasp = Elements(Names(<<"y", "z", "w">>))
    /\ calc.result.common = Names(<<"y", "z">>)
    /\ calc.result.missing = Names(<<"x", "w">>)
    /\ calc.result.syftTotal = 3 /\ calc.result.owaspTotal = 3

Generated == calc.op = "generateDependencies" /\ calc.pc = "done"

\* C8: whatever is drawn, the array generateDependencies returns contains
\* every string of the record's parsedDependencies and every entry of the
\* override table for the record's fullName and the tool.
C8_KeepsParsedAndOverrides ==
    Generated =>
        /\ Elements(parsedDependencies(calc.repoData)) \subseteq Elements(calc.result)
        /\ Elements(basePackages(calc.repoData.fullName, calc.tool))
               \subseteq Elements(calc.result)

\* a call for a record with parsed dependencies and override entries has
\* returned them together with random extras
C8_Witness ==
    /\ Generated
    /\ parsedDependencies(calc.repoData) # <<>>
    /\ basePackages(calc.repoData.fullName, calc.tool) # <<>>
    /\ Len(calc.result) > Len(parsedDependencies(calc.repoData))
                            + Len(basePackages(calc.repoData.fullName, calc.tool))

\* C9: generateCycloneDXSBOM returns one component per element of the
\* list, in list order, and for an element name@version (the name of a
\* scoped package beginning with "@") the component has that name, that
\* version and the purl pkg:npm/name@version.
C9_OneComponentPerDependency ==
    calc.op = "generateCycloneDXSBOM" /\ calc.pc = "done" =>
        /\ Len(calc.result.components) = Len(calc.dependencies)
        /\ \A j \in 1..Len(calc.entries) :
              /\ calc.result.components[j].bomRef = EntryString(calc.entries[j])
              /\ ~calc.entries[j].bare =>
                    /\ calc.result.components[j].name = calc.entries[j].name
                    /\ calc.result.components[j].version = calc.entries[j].version
                    /\ calc.result.components[j].purl =
                          <<"pkg:npm/">> \o DepString(calc.entries[j].name,
                                                      calc.entries[j].version)

\* the band the estimate for a star count lies in
Band(stars) ==
    IF stars > 50000 THEN 200..299
    ELSE IF stars > 10000 THEN 100..149
    ELSE IF stars > 1000 THEN 50..79
    ELSE IF stars > 100 THEN 20..39
    ELSE 5..14

\* C11: the record built from the fetched metadata has, when no
\* dependency was parsed from a manifest, a dependency count in the band
\* of its star count (more than 50000: 200..299, more than 10000:
\* 100..149, more than 1000: 50..79, more than 100: 20..39, else 5..14),
\* and otherwise the number of dependencies parsed.
C11_EstimateBands ==
    [][\A i \in 1..Len(adds) : \A resp \in Responses :
          AddManifestsWith(i, resp) =>
             LET r == repositories'[generateRepoId(adds[i].url)] IN
             IF r.parsedDependencies = <<>>
             THEN r.dependencies \in Band(adds[i].stars)
             ELSE r.dependencies = Len(r.parsedDependencies)]_vars

\* a record with no parsed dependency and the largest estimate has been
\* stored
C11_Witness ==
    /\ adds = <<>>
    /\ \E id \in DOMAIN repositories :
          /\ ~IsMock(repositories[id])
          /\ repositories[id].parsedDependencies = <<>>
          /\ repositories[id].dependencies = 299

\* C12: for the bare slug, the slug with ".git", the full URL and the
\* full URL with ".git" of one repository, extractRepoFullName returns
\* the same string, owner/repo.
C12_SameSlugForEveryForm ==
    calc.op = "extractRepoFullName" /\ calc.pc = "done"
        => calc.result = calc.owner \o <<Slash>> \o calc.repo

\* the slug of a full URL with ".git", of a repository with a dot in its
\* name, has been returned
C12_Witness ==
    /\ calc.op = "extractRepoFullName" /\ calc.pc = "done"
    /\ Includes(calc.prefix, GithubHost) /\ calc.suffix = DotGit
    /\ Includes(calc.repo, Str(<<".">>))
    /\ calc.result = calc.owner \o <<Slash>> \o calc.repo

\* the full names a record made for url may carry
FullNames(url) ==
    {extractRepoFullName(url)} \cup {m.fullName : m \in createMockRepoData(url)}

\* C13: two different URL strings never have the same identifier: an add
\* is rejected as already present only when the record in its slot was
\* made for the very same URL.
C13_NoCollision ==
    [][\A u \in env.urls :
          ReAdd(u) => repositories[IdOf(u)].fullName \in FullNames(Trim(u))]_vars

\* a step in which a response with the headers of o arrives for a request
\* of an add
Arrives(o) ==
    /\ o.kind # "throw"
    /\ \E i \in 1..Len(adds) :
          AddProbeWith(i, o) \/ AddInfoWith(i, o) \/ AddLangsWith(i, o)

\* C14: every response to a request of an add (the accessibility probe,
\* the metadata fetch, the language fetch) is passed to updateRateLimit:
\* after a response that carries both rate-limit headers the rate-limit
\* state has the values of that response.
C14_EveryResponseUpdates ==
    [][\A o \in Outcomes :
          Arrives(o) /\ o.headers.remaining # <<>> /\ o.headers.reset # <<>>
              => /\ rateLimit'.remaining = HeaderValue(o.headers.remaining)
                 /\ rateLimit'.reset = HeaderValue(o.headers.reset) * 1000]_vars

\* an add call for a url that is not in the catalog and has no slug
AddWithoutSlug(u) ==
    /\ Trim(u) # <<>> /\ ~BtoaThrows(Trim(u))
    /\ ~Has(repositories, IdOf(u))
    /\ extractRepoFullName(Trim(u)) = <<>>
    /\ AddRepository(u)

\* C15: an add of an input from which no owner/repo slug can be derived
\* fails; the failure is notified to the user and no record is stored
\* for the input.
C15_NoSlugIsRejected ==
    [][\A u \in env.urls :
          AddWithoutSlug(u) => /\ notification' = "Error"
                               /\ ~Has(repositories', IdOf(u))]_vars

\* the place of a request in the order of an add
Rank(pc) == CASE pc = "probe" -> 1 [] pc = "info" -> 2 [] pc = "langs" -> 3
              [] pc = "manifests" -> 4

\* the add at position i goes on to its next request, and nothing else
\* changes among the adds
GoesOn(i) ==
    /\ Len(adds') = Len(adds)
    /\ \A j \in 1..Len(adds) : j # i => adds'[j] = adds[j]
    /\ adds'[i].url = adds[i].url
    /\ Rank(adds'[i].pc) = Rank(adds[i].pc) + 1

\* the add at position i ends: it makes no further request
Ends(i) == adds' = RemoveAt(adds, i)

\* C16: an add of an identifier that is not in the catalog makes its
\* requests in the order probe, metadata, languages, manifest probes, the
\* next one when the answer to the previous one has come; after an
\* inaccessible probe or a failed metadata fetch it makes no further
\* request; an add of an identifier of the catalog makes none.
C16_RequestsInOrder ==
    [][/\ \A u \in env.urls :
             AddRepository(u) =>
                \/ adds' = adds
                \/ /\ ~Has(repositories, IdOf(u))
                   /\ Len(adds') = Len(adds) + 1
                   /\ SubSeq(adds', 1, Len(adds)) = adds
                   /\ adds'[Len(adds')].url = Trim(u)
                   /\ adds'[Len(adds')].pc = "probe"
       /\ \A u \in env.urls : ReAdd(u) => adds' = adds
       /\ \A i \in 1..Len(adds) : \A o \in Outcomes :
             /\ AddProbeWith(i, o) \/ AddInfoWith(i, o)
                    => IF o.kind = "ok" THEN GoesOn(i) ELSE Ends(i)
             /\ AddLangsWith(i, o) => GoesOn(i)
       /\ \A i \in 1..Len(adds) : AddManifestsDone(i) => Ends(i)
       /\ adds' # adds =>
             \/ \E u \in env.urls : AddRepository(u)
             \/ \E i \in 1..Len(adds) :
                   AddProbeDone(i) \/ AddInfoDone(i) \/ AddLangsDone(i)
                       \/ AddManifestsDone(i)]_vars

\* an add has had answers to its probe, its metadata fetch and its
\* language fetch and awaits the manifest probes, while another input's
\* record is in the catalog
C16_Witness ==
    /\ \E i \in 1..Len(adds) : adds[i].pc = "manifests" /\ ~adds[i].langsFailed
    /\ DOMAIN repositories # {}

\* C17: fetchDependencyFiles requests the candidates in list order, one
\* request each, a request only when the one before it has ended; a
\* request that fails or finds nothing does not end the loop; the list
\* returned has exactly the candidates answered with a 200 response, in
\* list order.
C17_OneProbePerCandidate ==
    calc.op = "fetchDependencyFiles" =>
        /\ calc.requests = SubSeq(manifestFiles, 1, Len(calc.requests))
        /\ Len(calc.requests) - calc.answered \in {0, 1}
        /\ calc.pc = "done" =>
              /\ calc.requests = manifestFiles
              /\ calc.answered = Len(manifestFiles)
              /\ [j \in 1..Len(calc.result) |-> calc.result[j].name]
                     = SelectSeq(manifestFiles, LAMBDA f : calc.resp[f].status = 200)

\* a call has returned the first and the last candidate although a
\* request between them failed
C17_Witness ==
    /\ calc.op = "fetchDependencyFiles" /\ calc.pc = "done"
    /\ calc.resp["yarn.lock"].status = 0
    /\ Len(calc.result) = 2
    /\ calc.result[1].name = "package.json" /\ calc.result[2].name = "project.clj"

\* C18: the sequence generateDependencies returns, for a record with or
\* without parsed dependencies and for either tool, has no string twice.
C18_NoStringTwice == Generated => NoRepeats(calc.result)

\* the version strings with a major version in 1..5 and a minor version
\* and a patch in 0..9
PoolVersions ==
    {VersionString(major, minor, patch) :
        major \in 1..5, minor \in 0..9, patch \in 0..9}

\* e is name@version with a name of pool and such a version
PoolEntry(e, pool) ==
    /\ Len(e) = 3
    /\ \E k \in 1..Len(pool) : e[1] = pool[k]
    /\ e[2] = At
    /\ e[3] \in PoolVersions

\* the parsed dependencies followed by the override entries, each string
\* once
ParsedAndOverrides ==
    Dedupe(parsedDependencies(calc.repoData)
               \o basePackages(calc.repoData.fullName, calc.tool))

\* for a record with parsed dependencies, the result is the parsed
\* dependencies and override entries followed by at most most entries
\* of the pool
AppendsAtMost(most) ==
    Generated /\ calc.branch = "parsed" =>
        LET kept == ParsedAndOverrides
            r == calc.result
        IN  /\ Len(r) - Len(kept) \in 0..most
            /\ SubSeq(r, 1, Len(kept)) = kept
            /\ \A j \in (Len(kept) + 1)..Len(r) : PoolEntry(r[j], extraPackages)

\* C19: for a record with parsed dependencies, generateDependencies
\* appends between 0 and 4 entries after the parsed dependencies and the
\* override entries, each with a name of the pool, a major version in
\* 1..5, a minor version in 0..9 and a patch in 0..9.
C19_AppendsUpToFour == AppendsAtMost(4)

\* C19 as amended: between 0 and 5 entries are appended.
C19_AppendsUpToFive == AppendsAtMost(5)

\* five entries have been appended to the parsed dependencies
C19_Witness ==
    /\ Generated /\ calc.branch = "parsed"
    /\ Len(calc.result) = Len(ParsedAndOverrides) + 5

\* a step in which the user starts a handler
HandlerStarts ==
    \/ \E u \in env.urls : AddRepository(u)
    \/ \E id \in Ids : RemoveRepository(id) \/ ToggleRepoSelection(id)
    \/ ClearAllRepositories
    \/ \E t \in Tools : RunTool(t)

\* C20: the catalog, the selection and the artifact stores change only in
\* a step of a handler that runs while no scan and no add is suspended,
\* or in a step that resumes the one scan or add that is suspended.
C20_NoMutationWhileSuspended ==
    [][StorageNext # Storage =>
          \/ adds = <<>> /\ scans = <<>>
          \/ Len(adds) + Len(scans) = 1 /\ ~HandlerStarts]_vars

\* C21: every step leaves the log as it was or puts new entries at its
\* head: the log before the step is a suffix of the log after it, so no
\* entry is removed, changed or moved; and no entry is older than one
\* that follows it.
C21_LogAppendOnly ==
    [][/\ Len(challenges') >= Len(challenges)
       /\ SubSeq(challenges', Len(challenges') - Len(challenges) + 1,
                 Len(challenges')) = challenges
       /\ \A j \in 1..Len(challenges') : \A k \in j..Len(challenges') :
             challenges'[j].timestamp >= challenges'[k].timestamp]_vars

\* the catalog has been cleared and the entries logged before are all
\* still there, the first one last
C21_Witness ==
    /\ notification = "All repositories removed"
    /\ Len(challenges) >= 3
    /\ challenges[Len(challenges)].title = "Initial Setup"
    /\ challenges[1].title = "GitHub API Error"

\* a step in which the add at position i returns a record it has stored
AddStores(i) ==
    /\ AddProbeDone(i) \/ AddInfoDone(i) \/ AddManifestsDone(i)
    /\ Len(adds') < Len(adds)

\* C22: an add call stores a record only under an identifier that has
\* none, so of two overlapping calls for one URL only one stores; and a
\* record of the catalog stays as it is, but for its scanned flag being
\* set, until it is removed.
C22_AddNeverReplaces ==
    [][/\ \A i \in 1..Len(adds) :
             AddStores(i) => ~Has(repositories, generateRepoId(adds[i].url))
       /\ \A id \in DOMAIN repositories :
             Has(repositories', id) =>
                \/ repositories'[id] = repositories[id]
                \/ repositories'[id] = [repositories[id] EXCEPT !.scanned = TRUE]]_vars

\* C23: while a runTool call of a tool is suspended, the run button of
\* that tool is disabled, and no second call of the tool is suspended
\* with it.
C23_OneScanPerTool ==
    /\ \A k \in 1..Len(scans) : runBtnDisabled[scans[k].tool]
    /\ \A j, k \in 1..Len(scans) : scans[j].tool = scans[k].tool => j = k

\* a step in which the runTool call at position k completes
Completes(k) == RunToolNext(k) /\ Len(scans') < Len(scans)

\* C24: when a runTool call completes, every id that was selected when
\* it started and is in the catalog now has a cyclonedx and an spdx
\* document stored under the tool, and its record has scanned = TRUE.
C24_ScanCoversSelection ==
    [][\A k \in 1..Len(scans) :
          Completes(k) =>
             \A id \in Range(scans[k].reposArray) \cap DOMAIN repositories :
                /\ Has(sboms[scans[k].tool], id)
                /\ Formats \subseteq sboms[scans[k].tool][id]
                /\ repositories[id].scanned]_vars

====
